---- MODULE Spec2Model ----
(***************************************************************************)
(* HashBaker (src/hashbaker.py): the command-line run of main, the         *)
(* dispatch of extract_hash over the detected file type, and the embedded  *)
(* PDF extractor (PdfHashExtractor) that serialises the encryption         *)
(* dictionary of a document into a "$pdf$..." line.                        *)
(*                                                                         *)
(* Text is a sequence of one-character strings, bytes are sequences of     *)
(* integers 0..255, and an optional value is a sequence of length 0 (None) *)
(* or 1.  The file system is the sibling .hash file and the downloaded     *)
(* 7z helper; both survive from one run of the program to the next.        *)
(***************************************************************************)
EXTENDS Integers, Sequences, FiniteSets, TLC

VARIABLES
    src,          \* the path given on the command line
    doc,          \* what the PDF library finds in the file at that path
    runs,         \* how many runs of the program have started
    pc,           \* where the current run is
    isFile,       \* src.exists() as main saw it
    extractor,    \* the PdfHashExtractor instance (None before construction)
    txt,          \* extractor.parse() as returned to extract_pdf (None before)
    result,       \* the Optional[Path] extract_hash returns
    toolsLeft,    \* the john tools extract_hash has still to try
    hashFile,     \* content of the sibling .hash file (None: no such file)
    localHelper,  \* helper_scripts/7z2hashcat.pl exists
    stdout,       \* the lines the run printed after the banner
    exitCode,     \* the exit status of the run (None while running)
    calledExtract,\* history: main reached extract_hash in this run
    wroteThisCall,\* history: the extractor produced the .hash file in this call
    fileAtStart,  \* history: content of the .hash file when the run began
    pdfError      \* history: the exception extract_pdf caught ("" when none)

vars == <<src, doc, runs, pc, isFile, extractor, txt, result, toolsLeft,
          hashFile, localHelper, stdout, exitCode, calledExtract,
          wroteThisCall, fileAtStart, pdfError>>

None == <<>>
Some(x) == <<x>>

(***************************************************************************)
(* Bounds of the model.                                                    *)
(***************************************************************************)
\* runs of the program on the same source path
MaxRuns == 2
\* how many bytes past a truncation limit the longer byte fields are
MaxExtra == 1

(***************************************************************************)
(* Text and number formatting, as Python does it.                          *)
(***************************************************************************)
DigitChars == <<"0", "1", "2", "3", "4", "5", "6", "7", "8", "9">>
HexChars == <<"0", "1", "2", "3", "4", "5", "6", "7", "8", "9",
              "a", "b", "c", "d", "e", "f">>

RECURSIVE NatToDec(_)
NatToDec(n) ==
    IF n < 10 THEN <<DigitChars[n + 1]>>
    ELSE NatToDec(n \div 10) \o <<DigitChars[(n % 10) + 1]>>

\* str(n) of a Python int
IntStr(n) == IF n < 0 THEN <<"-">> \o NatToDec(0 - n) ELSE NatToDec(n)

\* str(v) of an optional int: str(None) is "None"
OptIntStr(v) == IF v = None THEN <<"N", "o", "n", "e">> ELSE IntStr(v[1])

\* bytes.hex(): two lowercase digits per byte, no separator
RECURSIVE BytesHex(_)
BytesHex(b) ==
    IF b = <<>> THEN <<>>
    ELSE <<HexChars[(Head(b) \div 16) + 1], HexChars[(Head(b) % 16) + 1]>>
         \o BytesHex(Tail(b))

\* sep.join(parts)
RECURSIVE StrJoin(_, _)
StrJoin(sep, parts) ==
    IF parts = <<>> THEN <<>>
    ELSE IF Len(parts) = 1 THEN parts[1]
    ELSE parts[1] \o sep \o StrJoin(sep, Tail(parts))

\* data[:n]
Prefix(data, n) == SubSeq(data, 1, IF Len(data) < n THEN Len(data) ELSE n)

(***************************************************************************)
(* SecurityRevision                                                        *)
(***************************************************************************)
revisions == (2 :> 32) @@ (3 :> 32) @@ (4 :> 32) @@ (5 :> 48) @@ (6 :> 48)

\* a plausible slip: the default of the lookup is the legacy length
get_key_length_default32(revision) ==
    IF revision \in DOMAIN revisions THEN revisions[revision] ELSE 32

get_key_length(revision) ==
    IF revision \in DOMAIN revisions THEN revisions[revision] ELSE 48

(***************************************************************************)
(* What the PDF library reports of a document.  A document is              *)
(*   kind     "encrypted", "plain" (no /Encrypt) or "unreadable"           *)
(*   handler  "standard", or "pubkey" (a handler without udata/odata/...)  *)
(*   V, R, Length, P   the optional integers of the encryption dictionary  *)
(*   em       security_handler.encrypt_metadata                            *)
(*   id       0 when the trailer has no /ID, else an index into DocIds     *)
(*   udata, odata, oeseed, ueseed   the length of each byte attribute of   *)
(*            the security handler, 0 when it is None or empty             *)
(***************************************************************************)
DocIds == << <<222, 173, 190, 239>>, <<26, 43, 60, 77>> >>

FieldBase == [udata |-> 34, odata |-> 17, oeseed |-> 170, ueseed |-> 187]

\* the bytes of a field of n bytes: base, base+1, ...
FieldBytes(key, n) == [i \in 1..n |-> (FieldBase[key] + i - 1) % 256]

\* absent, short, exactly the legacy limit, and past each limit
FieldLens == {0, 16, 32, 32 + MaxExtra, 48 + MaxExtra}

MkDoc(kind, handler, V, R, Length, P, em, id, u, o, oe, ue) ==
    [kind |-> kind, handler |-> handler, V |-> V, R |-> R, Length |-> Length,
     P |-> P, em |-> em, id |-> id,
     udata |-> u, odata |-> o, oeseed |-> oe, ueseed |-> ue]

DefaultDoc ==
    MkDoc("encrypted", "standard", Some(2), Some(3), Some(128), Some(-4),
          TRUE, 1, 32, 32, 0, 0)

\* every combination of dictionary entries, with the byte fields a standard
\* handler of that revision carries
HeaderDocs ==
    { MkDoc("encrypted", "standard", V, R, L, P, em, id,
            IF R = Some(6) THEN 48 ELSE 32, IF R = Some(6) THEN 48 ELSE 32,
            IF R = Some(6) THEN 32 ELSE 0, IF R = Some(6) THEN 32 ELSE 0) :
        V \in {None, Some(2), Some(5)}, R \in {None, Some(3), Some(6)},
        L \in {None, Some(128), Some(256)},
        P \in {None, Some(-3904), Some(-4)},
        em \in BOOLEAN, id \in 0..Len(DocIds) }

\* every revision with every combination of byte-field lengths
FieldDocs ==
    { MkDoc("encrypted", "standard", Some(2), Some(R), Some(128), Some(-4),
            FALSE, 1, u, o, oe, ue) :
        R \in 2..7, u \in FieldLens, o \in FieldLens,
        oe \in FieldLens, ue \in FieldLens }

OtherDocs ==
    { [DefaultDoc EXCEPT !.kind = "plain"],
      [DefaultDoc EXCEPT !.kind = "unreadable"],
      [DefaultDoc EXCEPT !.handler = "pubkey"] }

Docs == HeaderDocs \cup FieldDocs \cup OtherDocs

\* getattr(self.pdf.security_handler, key)
getattr_handler(d, key) == FieldBytes(key, d[key])

(***************************************************************************)
(* PdfHashExtractor                                                        *)
(***************************************************************************)
\* the exception __init__ raises on a document, "" when it returns.  The
\* reader may refuse any file (openOk = FALSE); a dictionary it hands over
\* is read as the code reads it: /V and /Length with .get, /P and /R with []
InitError(d, openOk) ==
    IF ~openOk THEN "OSError"
    ELSE IF d.kind = "unreadable" THEN "PdfReadError"
    ELSE IF d.kind = "plain" THEN "RuntimeError"
    ELSE IF d.P = None THEN "KeyError"
    ELSE IF d.R = None THEN "KeyError"
    ELSE ""

\* the attributes __init__ sets
NewExtractor(d) ==
    [algorithm |-> d.V,
     length |-> IF d.Length = None THEN 40 ELSE d.Length[1],
     permissions |-> d.P[1],
     revision |-> d.R[1]]

\* the tuple get_passwords iterates over
keys_owner_first == <<"odata", "udata", "oeseed", "ueseed">>
keys == <<"udata", "odata", "oeseed", "ueseed">>

\* what one key adds to the list: nothing when the attribute is falsy
PasswordEntryAlways(data, max) ==
    <<IntStr(Len(Prefix(data, max))), BytesHex(Prefix(data, max))>>
PasswordEntry(data, max) ==
    IF data # <<>>
    THEN <<IntStr(Len(Prefix(data, max))), BytesHex(Prefix(data, max))>>
    ELSE <<>>

RECURSIVE PasswordList(_, _, _)
PasswordList(d, ks, max) ==
    IF ks = <<>> THEN <<>>
    ELSE PasswordEntry(getattr_handler(d, Head(ks)), max)
         \o PasswordList(d, Tail(ks), max)

\* a reading of the keys that depends on the revision
get_passwords_by_revision(d, revision) ==
    StrJoin(<<"*">>,
            PasswordList(d, IF revision <= 4 THEN <<"udata", "odata">>
                            ELSE <<"oeseed", "ueseed">>,
                         get_key_length(revision)))
get_passwords(d, revision) ==
    StrJoin(<<"*">>, PasswordList(d, keys, get_key_length(revision)))

\* the exception parse raises, "" when it returns
ParseError(d) ==
    IF d.handler # "standard" THEN "AttributeError"
    ELSE IF d.id = 0 THEN "PdfReadError"
    ELSE ""

document_id(d) == DocIds[d.id]

encrypt_metadata(d) == IF d.em THEN <<"1">> ELSE <<"0">>

parse(ex, d) ==
    LET passwords == get_passwords(d, ex.revision)
        fields == << <<"$", "p", "d", "f", "$">> \o OptIntStr(ex.algorithm),
                     IntStr(ex.revision),
                     IntStr(ex.length),
                     IntStr(ex.permissions),
                     encrypt_metadata(d),
                     IntStr(Len(document_id(d))),
                     BytesHex(document_id(d)),
                     passwords >>
    IN  StrJoin(<<"*">>, fields)

(***************************************************************************)
(* Type detection and paths                                                *)
(***************************************************************************)
\* a path is its stem and its lower-cased extension; mime is what
\* `file -b --mime-type` prints for it, "" when `file` is not installed
MkSrc(stem, ext, mime) == [stem |-> stem, ext |-> ext, mime |-> mime]

PdfSrc == MkSrc("a", "pdf", "application/pdf")

OtherSources ==
    { MkSrc("a", "docx", ""), MkSrc("a", "zip", ""), MkSrc("a", "rar", ""),
      MkSrc("a", "7z", ""), MkSrc("a", "pcap", ""), MkSrc("ntds", "dit", ""),
      MkSrc("a", "bin", ""), MkSrc("a", "bin", "text/plain"),
      MkSrc("a", "bin", "application/pdf"),
      MkSrc("a", "bin", "application/vnd.tcpdump.pcap"),
      MkSrc("a", "bin", "application/zip"),
      MkSrc("a", "bin", "application/x-rar"),
      MkSrc("a", "bin", "application/x-7z-compressed") }

\* the words of detect_type that occur in a mime type
MimeWords(mime) ==
    CASE mime = "application/pdf" -> {"pdf"}
      [] mime = "application/vnd.tcpdump.pcap" -> {"pcap"}
      [] mime = "application/zip" -> {"zip"}
      [] mime = "application/x-rar" -> {"rar", "x-rar"}
      [] mime = "application/x-7z-compressed" -> {"7z", "zip"}
      [] OTHER -> {}

detect_type(path) ==
    IF path.ext = "pdf" THEN "pdf"
    ELSE IF path.ext \in {"doc", "docx", "xls", "xlsx", "ppt", "pptx"}
    THEN "office"
    ELSE IF path.ext = "zip" THEN "zip"
    ELSE IF path.ext = "rar" THEN "rar"
    ELSE IF path.ext = "7z" THEN "7z"
    ELSE IF path.ext \in {"pcap", "cap", "pcapng"} THEN "pcap"
    ELSE IF path.stem = "ntds" /\ path.ext = "dit" THEN "ntds"
    ELSE IF "pdf" \in MimeWords(path.mime) THEN "pdf"
    ELSE IF "pcap" \in MimeWords(path.mime) THEN "pcap"
    ELSE IF "zip" \in MimeWords(path.mime) THEN "zip"
    ELSE IF MimeWords(path.mime) \cap {"rar", "x-rar"} # {} THEN "rar"
    ELSE IF "7z" \in MimeWords(path.mime) THEN "7z"
    ELSE "unknown"

\* path.with_suffix(".hash")
with_suffix_hash(path) == [path EXCEPT !.ext = "hash"]

\* the john tools extract_hash tries for a type, in order
JohnTools(t) ==
    CASE t = "office" -> <<"office2john.py", "office2john">>
      [] t = "zip" -> <<"zip2john">>
      [] t = "rar" -> <<"rar2john">>
      [] t = "ntds" -> <<"ntds2john.py", "ntds2john">>
      [] OTHER -> <<>>

\* the bytes an external tool prints for the file
ToolOutput(tool) == <<tool>>

(***************************************************************************)
(* Initial state: the program has not run, no .hash file, no helper.       *)
(***************************************************************************)
Init ==
    /\ \/ src = PdfSrc /\ doc \in Docs
       \/ src \in OtherSources /\ doc = DefaultDoc
    /\ runs = 0
    /\ pc = "idle"
    /\ isFile = FALSE
    /\ extractor = None
    /\ txt = None
    /\ result = None
    /\ toolsLeft = <<>>
    /\ hashFile = None
    /\ localHelper = FALSE
    /\ stdout = <<>>
    /\ exitCode = None
    /\ calledExtract = FALSE
    /\ wroteThisCall = FALSE
    /\ fileAtStart = None
    /\ pdfError = ""

\* a new process: nothing of the previous run is left but the file system
Fresh ==
    /\ pc \in {"idle", "exited"}
    /\ runs < MaxRuns
    /\ runs' = runs + 1
    /\ extractor' = None
    /\ txt' = None
    /\ result' = None
    /\ toolsLeft' = <<>>
    /\ calledExtract' = FALSE
    /\ wroteThisCall' = FALSE
    /\ fileAtStart' = hashFile
    /\ pdfError' = ""
    /\ UNCHANGED <<src, doc, hashFile, localHelper>>

(***************************************************************************)
(* main                                                                    *)
(***************************************************************************)
\* wrong argument count, -h or --help
MainUsage ==
    /\ Fresh
    /\ isFile' = FALSE
    /\ stdout' = <<"Usage">>
    /\ exitCode' = Some(0)
    /\ pc' = "exited"

\* print_failure("Error: file not found.")
MainNotFound ==
    /\ Fresh
    /\ isFile' = FALSE
    /\ stdout' = <<"Extraction failed.", "Error: file not found.">>
    /\ exitCode' = Some(2)
    /\ pc' = "exited"

MainExists ==
    /\ Fresh
    /\ isFile' = TRUE
    /\ stdout' = <<>>
    /\ exitCode' = None
    /\ pc' = "auto_install"

\* auto_install inside main's try/except Exception.  sys.exit(1) raises
\* SystemExit, which is no Exception: the process ends there.  A failing
\* apt-get raises CalledProcessError, which main swallows; a missing apt-get
\* is swallowed by run_quiet itself.
AutoInstall ==
    /\ pc = "auto_install"
    /\ \E root \in BOOLEAN, update \in {"ok", "failed", "missing"},
          install \in {"ok", "failed", "missing"} :
          IF ~root
          THEN /\ stdout' = <<"Error: must run as root to install dependencies.">>
               /\ exitCode' = Some(1)
               /\ pc' = "exited"
          ELSE /\ pc' = "extract_hash"
               /\ UNCHANGED <<stdout, exitCode>>
    /\ UNCHANGED <<src, doc, runs, isFile, extractor, txt, result, toolsLeft,
                   hashFile, localHelper, calledExtract, wroteThisCall,
                   fileAtStart, pdfError>>

(***************************************************************************)
(* extract_hash and the extractors                                         *)
(***************************************************************************)
ExtractHash ==
    /\ pc = "extract_hash"
    /\ calledExtract' = TRUE
    /\ LET t == detect_type(src) IN
         /\ pc' = CASE t = "pdf" -> "ensure_pyhanko"
                    [] t \in {"office", "zip", "rar", "ntds"} -> "john"
                    [] t = "7z" -> "7z"
                    [] t = "pcap" -> "pcap"
                    [] OTHER -> "report"
         /\ toolsLeft' = JohnTools(t)
    /\ UNCHANGED <<src, doc, runs, isFile, extractor, txt, result, hashFile,
                   localHelper, stdout, exitCode, wroteThisCall, fileAtStart,
                   pdfError>>

\* write_to_unified_hashfile: the new content of the .hash file
write_to_unified_hashfile(data) == Some(data)

\* extract_pdf's `except Exception: return None`: the .hash file after an
\* exception, given the file before and the text serialised so far
ExtractPdfExceptPartial(file, soFar) == Some(soFar)
ExtractPdfExcept(file, soFar) == file

\* extract_pdf: `if not ensure_pyhanko(): return None`
EnsurePyhanko ==
    /\ pc = "ensure_pyhanko"
    /\ \E ok \in BOOLEAN :
          IF ok THEN pc' = "pdf_init" /\ pdfError' = ""
          ELSE pc' = "report" /\ pdfError' = "ImportError"
    /\ UNCHANGED <<src, doc, runs, isFile, extractor, txt, result, toolsLeft,
                   hashFile, localHelper, stdout, exitCode, calledExtract,
                   wroteThisCall, fileAtStart>>

\* extract_pdf: extractor = PdfHashExtractor(str(path))
PdfInit ==
    /\ pc = "pdf_init"
    /\ \E openOk \in BOOLEAN :
          LET err == InitError(doc, openOk) IN
          IF err = ""
          THEN /\ extractor' = Some(NewExtractor(doc))
               /\ pc' = "pdf_parse"
               /\ UNCHANGED <<pdfError, hashFile>>
          ELSE /\ pdfError' = err
               /\ hashFile' = ExtractPdfExcept(hashFile, <<>>)
               /\ pc' = "report"
               /\ UNCHANGED extractor
    /\ UNCHANGED <<src, doc, runs, isFile, txt, result, toolsLeft,
                   localHelper, stdout, exitCode, calledExtract,
                   wroteThisCall, fileAtStart>>

\* extract_pdf: txt = extractor.parse().encode()
PdfParse ==
    /\ pc = "pdf_parse"
    /\ LET err == ParseError(doc) IN
          IF err = ""
          THEN /\ txt' = Some(parse(extractor[1], doc))
               /\ pc' = "pdf_write"
               /\ UNCHANGED <<pdfError, hashFile>>
          ELSE /\ pdfError' = err
               /\ hashFile' =
                    ExtractPdfExcept(hashFile,
                        <<"$", "p", "d", "f", "$">>
                        \o OptIntStr(extractor[1].algorithm))
               /\ pc' = "report"
               /\ UNCHANGED txt
    /\ UNCHANGED <<src, doc, runs, isFile, extractor, result, toolsLeft,
                   localHelper, stdout, exitCode, calledExtract,
                   wroteThisCall, fileAtStart>>

\* extract_pdf: return write_to_unified_hashfile(path, txt).  write_bytes
\* either stores the whole text or fails on opening the file, before any
\* byte is written.
PdfWrite ==
    /\ pc = "pdf_write"
    /\ \E writeOk \in BOOLEAN :
          IF writeOk
          THEN /\ hashFile' = write_to_unified_hashfile(txt[1])
               /\ wroteThisCall' = TRUE
               /\ result' = Some(with_suffix_hash(src))
               /\ UNCHANGED pdfError
          ELSE /\ pdfError' = "OSError"
               /\ hashFile' = ExtractPdfExcept(hashFile, <<>>)
               /\ UNCHANGED <<wroteThisCall, result>>
    /\ pc' = "report"
    /\ UNCHANGED <<src, doc, runs, isFile, extractor, txt, toolsLeft,
                   localHelper, stdout, exitCode, calledExtract, fileAtStart>>

\* extract_with_john_tool on the next tool of the `a or b` chain.  An error
\* of write_bytes is caught nowhere: the process dies with a traceback.
JohnTool ==
    /\ pc = "john"
    /\ toolsLeft # <<>>
    /\ \E found \in BOOLEAN, printed \in BOOLEAN, writeOk \in BOOLEAN :
          IF found /\ printed
          THEN IF writeOk
               THEN /\ hashFile' = write_to_unified_hashfile(ToolOutput(Head(toolsLeft)))
                    /\ wroteThisCall' = TRUE
                    /\ result' = Some(with_suffix_hash(src))
                    /\ pc' = "report"
                    /\ UNCHANGED <<toolsLeft, stdout, exitCode>>
               ELSE /\ stdout' = <<"Traceback">>
                    /\ exitCode' = Some(1)
                    /\ pc' = "exited"
                    /\ UNCHANGED <<hashFile, wroteThisCall, result, toolsLeft>>
          ELSE /\ toolsLeft' = Tail(toolsLeft)
               /\ pc' = IF Tail(toolsLeft) = <<>> THEN "report" ELSE "john"
               /\ UNCHANGED <<hashFile, wroteThisCall, result, stdout, exitCode>>
    /\ UNCHANGED <<src, doc, runs, isFile, extractor, txt, localHelper,
                   calledExtract, fileAtStart, pdfError>>

\* extract_7z: download the helper when it is neither on PATH nor local,
\* then run it
Extract7z ==
    /\ pc = "7z"
    /\ \E onPath \in BOOLEAN, downloaded \in BOOLEAN, printed \in BOOLEAN,
          writeOk \in BOOLEAN :
          LET local == IF ~onPath /\ ~localHelper THEN downloaded
                       ELSE localHelper
              helper == onPath \/ local
          IN  /\ localHelper' = local
              /\ IF helper /\ printed
                 THEN IF writeOk
                      THEN /\ hashFile' = write_to_unified_hashfile(ToolOutput("7z2hashcat.pl"))
                           /\ wroteThisCall' = TRUE
                           /\ result' = Some(with_suffix_hash(src))
                           /\ pc' = "report"
                           /\ UNCHANGED <<stdout, exitCode>>
                      ELSE /\ stdout' = <<"Traceback">>
                           /\ exitCode' = Some(1)
                           /\ pc' = "exited"
                           /\ UNCHANGED <<hashFile, wroteThisCall, result>>
                 ELSE /\ pc' = "report"
                      /\ UNCHANGED <<hashFile, wroteThisCall, result, stdout,
                                     exitCode>>
    /\ UNCHANGED <<src, doc, runs, isFile, extractor, txt, toolsLeft,
                   calledExtract, fileAtStart, pdfError>>

\* extract_pcap: run the tool with -o outname, then look whether outname
\* exists
ExtractPcap ==
    /\ pc = "pcap"
    /\ \E found \in BOOLEAN, produced \in BOOLEAN :
          IF ~found
          THEN UNCHANGED <<hashFile, wroteThisCall, result>>
          ELSE /\ hashFile' = IF produced THEN Some(ToolOutput("hcxpcapngtool"))
                              ELSE hashFile
               /\ wroteThisCall' = produced
               /\ result' = IF hashFile' # None
                            THEN Some(with_suffix_hash(src)) ELSE None
    /\ pc' = "report"
    /\ UNCHANGED <<src, doc, runs, isFile, extractor, txt, toolsLeft,
                   localHelper, stdout, exitCode, calledExtract, fileAtStart,
                   pdfError>>

\* main after extract_hash: print_success or print_failure
Report ==
    /\ pc = "report"
    /\ IF result # None
       THEN /\ stdout' = <<"Extraction successful.", result[1]>>
            /\ exitCode' = Some(0)
       ELSE /\ stdout' =
                 <<"Extraction failed.",
                   CASE detect_type(src) = "pdf" ->
                          "PDF extraction failed: pyhanko missing or unsupported PDF protection."
                     [] detect_type(src) = "pcap" ->
                          "PCAP extraction failed: hcxpcapngtool missing or no WPA handshake present."
                     [] OTHER -> "Extractor missing or file format unsupported.">>
            /\ exitCode' = Some(2)
    /\ pc' = "exited"
    /\ UNCHANGED <<src, doc, runs, isFile, extractor, txt, result, toolsLeft,
                   hashFile, localHelper, calledExtract, wroteThisCall,
                   fileAtStart, pdfError>>

Next ==
    \/ MainUsage \/ MainNotFound \/ MainExists
    \/ AutoInstall
    \/ ExtractHash
    \/ EnsurePyhanko \/ PdfInit \/ PdfParse \/ PdfWrite
    \/ JohnTool \/ Extract7z \/ ExtractPcap
    \/ Report

Spec == Init /\ [][Next]_vars

(***************************************************************************)
(* Reading a fingerprint back, as a consumer of the format does.           *)
(***************************************************************************)
\* s.split(c): the tokens between the occurrences of c
Split(s, c) ==
    LET seps == {i \in 1..Len(s) : s[i] = c}
        n == Cardinality(seps)
        \* position of the k-th separator; 0 before the first, Len+1 after
        pos == [k \in 0..(n + 1) |->
                   IF k = 0 THEN 0
                   ELSE IF k = n + 1 THEN Len(s) + 1
                   ELSE CHOOSE p \in seps :
                            Cardinality({q \in seps : q < p}) = k - 1]
    IN  [k \in 1..(n + 1) |-> SubSeq(s, pos[k - 1] + 1, pos[k] - 1)]

IndexIn(chars, ch) == CHOOSE k \in 1..Len(chars) : chars[k] = ch

IsDecimal(s) ==
    s # <<>> /\ \A i \in 1..Len(s) : \E k \in 1..10 : DigitChars[k] = s[i]

\* int(s) of a string of decimal digits
RECURSIVE DecValue(_)
DecValue(s) ==
    IF s = <<>> THEN 0
    ELSE 10 * DecValue(SubSeq(s, 1, Len(s) - 1))
         + (IndexIn(DigitChars, s[Len(s)]) - 1)

IsHex(s) ==
    /\ Len(s) % 2 = 0
    /\ \A i \in 1..Len(s) : \E k \in 1..16 : HexChars[k] = s[i]

\* bytes.fromhex(s)
HexDecode(s) ==
    [i \in 1..(Len(s) \div 2) |->
        16 * (IndexIn(HexChars, s[2 * i - 1]) - 1)
        + (IndexIn(HexChars, s[2 * i]) - 1)]

\* parse has just returned its line to extract_pdf
Parsed == pc = "pdf_write" /\ txt # None
Line == txt[1]

\* the tokens after the seven header fields; an empty password_fields
\* string holds no token
PasswordTokensOf(toks) ==
    LET t == SubSeq(toks, 8, Len(toks))
    IN  IF t = << <<>> >> THEN <<>> ELSE t

\* the (length, hex) pairs of the line
PairsOf(line) ==
    LET pw == PasswordTokensOf(Split(line, "*"))
    IN  [i \in 1..(Len(pw) \div 2) |-> <<pw[2 * i - 1], pw[2 * i]>>]

FieldKeys == {"udata", "odata", "oeseed", "ueseed"}
Present(k) == doc[k] > 0

\* a pair carries the bytes of field k: every field starts with its own byte
IsPairOf(pair, k) ==
    /\ Len(pair[2]) >= 2
    /\ IsHex(SubSeq(pair[2], 1, 2))
    /\ HexDecode(SubSeq(pair[2], 1, 2))[1] = FieldBase[k]

\* which field each pair of the line carries ("" when none)
FieldsOf(line) ==
    LET pairs == PairsOf(line)
    IN  [i \in 1..Len(pairs) |->
            IF \E k \in FieldKeys : IsPairOf(pairs[i], k)
            THEN CHOOSE k \in FieldKeys : IsPairOf(pairs[i], k)
            ELSE ""]

Min(a, b) == IF a < b THEN a ELSE b

\* the limit the format sets for a revision
MaxFieldLength(r) == IF r \in {2, 3, 4} THEN 32 ELSE 48

(***************************************************************************)
(* C1: the line parse returns is "$pdf$" and the decimal algorithm         *)
(* version, then revision, key length in bits (40 without /Length),        *)
(* permissions as a signed decimal, encrypt_metadata as 0 or 1, the        *)
(* length of the document id, the id in lowercase hex and the password     *)
(* fields, joined by "*" in that order.                                    *)
(***************************************************************************)
AlgorithmVersions == 0..5

FingerprintOf(a) ==
    <<"$", "p", "d", "f", "$">> \o IntStr(a)
    \o <<"*">> \o IntStr(doc.R[1])
    \o <<"*">> \o IntStr(IF doc.Length = None THEN 40 ELSE doc.Length[1])
    \o <<"*">> \o IntStr(doc.P[1])
    \o <<"*">> \o (IF doc.em THEN <<"1">> ELSE <<"0">>)
    \o <<"*">> \o IntStr(Len(DocIds[doc.id]))
    \o <<"*">> \o BytesHex(DocIds[doc.id])
    \o <<"*">> \o get_passwords(doc, doc.R[1])

C1_FingerprintFormat ==
    Parsed =>
        \E a \in AlgorithmVersions :
            /\ doc.V # None => a = doc.V[1]
            /\ Line = FingerprintOf(a)

(***************************************************************************)
(* C2 as written: the owner_data pair comes before the user_data pair,     *)
(* and both come before any seed pair.                                     *)
(***************************************************************************)
Before(fields, k1, k2) ==
    \A i \in 1..Len(fields), j \in 1..Len(fields) :
        fields[i] = k1 /\ fields[j] = k2 => i < j

EmittedOrder == <<"udata", "odata", "oeseed", "ueseed">>

TruncatedPair(pair, k) ==
    LET n == Min(doc[k], MaxFieldLength(doc.R[1]))
    IN  /\ IsDecimal(pair[1])
        /\ DecValue(pair[1]) = n
        /\ IsHex(pair[2])
        /\ HexDecode(pair[2]) = SubSeq(getattr_handler(doc, k), 1, n)

C4_Truncation ==
    Parsed =>
        LET pairs == PairsOf(Line)
            fields == FieldsOf(Line)
        IN  /\ \A k \in FieldKeys :
                  Present(k) => \E i \in 1..Len(pairs) : fields[i] = k
            /\ \A i \in 1..Len(pairs) :
                  /\ fields[i] \in FieldKeys
                  /\ Present(fields[i])
                  /\ TruncatedPair(pairs[i], fields[i])

C4_Witness ==
    /\ Parsed
    /\ doc.R = Some(7)
    /\ doc.ueseed > 48
    /\ doc.udata > 32
    /\ Len(PairsOf(Line)) >= 2

(***************************************************************************)
(* C5: the line parse returns does not end in "*" and holds no newline,    *)
(* also when no byte field is present.                                     *)
(***************************************************************************)
C5_NoTrailingDelimiter ==
    Parsed =>
        /\ Line[Len(Line)] # "*"
        /\ \A i \in 1..Len(Line) : Line[i] # "\n"

(***************************************************************************)
(* C6: an encryption dictionary without /V or without /R makes the         *)
(* extraction fail: no fingerprint is serialised and no path is returned.  *)
(***************************************************************************)
C6_VersionAndRevisionRequired ==
    detect_type(src) = "pdf" /\ doc.kind = "encrypted"
        /\ (doc.V = None \/ doc.R = None) =>
        /\ txt = None
        /\ result = None
        /\ hashFile = None

OnlyOwnerSeed16 ==
    /\ doc.R = Some(6)
    /\ doc.oeseed = 16
    /\ doc.udata = 0 /\ doc.odata = 0 /\ doc.ueseed = 0

C8_AbsentFieldsContributeNothing ==
    Parsed =>
        LET toks == Split(Line, "*")
            pw == PasswordTokensOf(toks)
        IN  /\ Len(pw) = 2 * Cardinality({k \in FieldKeys : Present(k)})
            /\ OnlyOwnerSeed16 =>
                  /\ Len(toks) = 9
                  /\ toks[8] = <<"1", "6">>
                  /\ Len(toks[9]) = 32
                  /\ IsHex(toks[9])
                  /\ HexDecode(toks[9]) = getattr_handler(doc, "oeseed")
                  /\ SubSeq(Line, Len(Line) - 35, Len(Line))
                        = <<"*", "1", "6", "*">> \o toks[9]

C8_Witness == Parsed /\ OnlyOwnerSeed16 /\ Len(PairsOf(Line)) = 1

(***************************************************************************)
(* C9: a run of main on an existing file always reaches extract_hash and   *)
(* ends with "Extraction successful." and exit status 0 or with            *)
(* "Extraction failed." and exit status 2, root or not, whether or not     *)
(* auto_install succeeds.                                                  *)
(***************************************************************************)
C9_InstallNeverPreventsExtraction ==
    pc = "exited" /\ isFile =>
        /\ calledExtract
        /\ \/ exitCode = Some(0) /\ stdout[1] = "Extraction successful."
           \/ exitCode = Some(2) /\ stdout[1] = "Extraction failed."

(***************************************************************************)
(* C10: extract_hash returns a path, and main reports success, only when   *)
(* the extractor produced the .hash file during that call.                 *)
(***************************************************************************)
C10_SuccessImpliesFreshOutput ==
    /\ result # None => wroteThisCall
    /\ pc = "exited" /\ isFile /\ exitCode = Some(0) => wroteThisCall

====
